---- MODULE Spec2Model ----
(***************************************************************************)
(* Model of server/data/logic.js of chatty: the resolver logic layer of a  *)
(* group-messaging service (messageLogic, groupLogic, userLogic,           *)
(* subscriptionLogic) over a relational store of users, groups, messages,  *)
(* membership rows and last-read rows, an asset storage and a push         *)
(* notification transport.                                                 *)
(*                                                                         *)
(* Every resolver is a promise chain.  Each awaited store call is one      *)
(* atomic step of the store; the synchronous code between two awaits runs  *)
(* in the same step as the call that resumes it.  Requests run             *)
(* concurrently, interleaved at the awaited calls.                         *)
(***************************************************************************)
EXTENDS Integers, Sequences, FiniteSets, TLC

(***************************************************************************)
(* Bounds of the model.                                                    *)
(***************************************************************************)
\* Number of requests one behaviour issues (each occupies one slot).
MaxOps == 2
\* Largest group id the store allocates.
MaxGroups == 3

(***************************************************************************)
(* Values.                                                                 *)
(***************************************************************************)
\* null / undefined: an absent user, group, asset key, message, token.
Null == 0
\* A field the input object does not have.
Absent == -1
Users == {1, 2, 3}
GroupIds == 1..MaxGroups
Slots == 1..MaxOps
Texts == {"hi"}
DefaultGroupName == "g"
NewGroupName == "n"

\* The user rows' friendship relation (symmetric, never changed by logic.js).
FriendsOf(u) ==
  CASE u = 1 -> {2}
    [] u = 2 -> {1, 3}
    [] u = 3 -> {2}
    [] OTHER -> {}

VARIABLES
  groups,          \* group rows: a function  id -> [name, icon]  over the ids that exist
  members,         \* membership rows: group id -> set of user ids
  messages,        \* message rows: set of [id, userId, groupId, text]
  nextMsgId,       \* next message id the store allocates
  nextGroupId,     \* next group id the store allocates
  lastRead,        \* last-read rows: user id -> set of message ids
  badgeCount,      \* user rows: badgeCount
  registrationId,  \* user rows: registrationId (Null or a device token)
  username,        \* user rows: username
  avatar,          \* user rows: avatar (Null or an asset key)
  assets,          \* asset storage: set of stored keys
  nextKey,         \* next asset key the storage hands out (uuidv4 is fresh)
  outbox,          \* notification transport: sequence of sendNotification calls
  reqs,            \* the requests: slot -> request record
  page             \* result of the last groupLogic.messages call

store == <<groups, members, messages, nextMsgId, nextGroupId, lastRead,
           badgeCount, registrationId, username, avatar>>
external == <<assets, nextKey, outbox>>
vars == <<groups, members, messages, nextMsgId, nextGroupId, lastRead,
          badgeCount, registrationId, username, avatar, assets, nextKey,
          outbox, reqs, page>>

(***************************************************************************)
(* Request records.                                                        *)
(***************************************************************************)
NoGroup == [id |-> Null, name |-> "", icon |-> Null]

Idle ==
  [op |-> "idle", user |-> Null, gid |-> Null, text |-> "", ids |-> {},
   icon |-> FALSE, name |-> "", lastRead |-> Null, reg |-> Absent,
   badge |-> Absent, avatar |-> FALSE, target |-> Null, gids |-> << >>,
   pc |-> "idle", status |-> "pending", err |-> "", val |-> Null,
   group |-> NoGroup, users |-> {}, pend |-> {}, ok |-> {}, failed |-> FALSE,
   friends |-> {}, key |-> Null, old |-> {}, addPc |-> "none", unhandled |-> "",
   uname |-> "", data |-> {}]

\* The slot a new request takes: the lowest idle one.
FreeSlot(s) == /\ reqs[s].op = "idle"
               /\ \A t \in Slots : t < s => reqs[t].op # "idle"

Rejected(r, e) == [r EXCEPT !.pc = "done", !.status = "rejected", !.err = e]
Resolved(r, v) == [r EXCEPT !.pc = "done", !.status = "resolved", !.val = v]

(***************************************************************************)
(* The store's queries.                                                    *)
(***************************************************************************)
GroupExists(g) == g \in DOMAIN groups

\* A group instance as a query returns it.
GroupInstance(g) == [id |-> g, name |-> groups[g].name, icon |-> groups[g].icon]

\* A user instance as a query returns it.
UserInstance(u) ==
  [id |-> u, badgeCount |-> badgeCount[u], registrationId |-> registrationId[u]]

\* getAuthenticatedUser without the test of the user.
getAuthenticatedUserUnchecked(ctxUser) == [ok |-> TRUE, err |-> "", user |-> ctxUser]

\* getAuthenticatedUser(ctx): the user ctx.user resolves to, or the
\* rejection 'Unauthorized' when it resolves to nothing.
getAuthenticatedUser(ctxUser) ==
  IF ctxUser = Null
    THEN [ok |-> FALSE, err |-> "Unauthorized", user |-> Null]
    ELSE [ok |-> TRUE, err |-> "", user |-> ctxUser]

\* getAuthenticatedUser(ctx).then(user => user. ...): every resolver reads a
\* member of what getAuthenticatedUser resolved to; on nothing that is a
\* TypeError.
currentUser(ctxUser) ==
  LET a == getAuthenticatedUser(ctxUser)
  IN IF a.ok /\ a.user = Null
       THEN [ok |-> FALSE, err |-> "TypeError", user |-> Null]
       ELSE a

\* messageLogic.to: message.getGroup({attributes: ['id', 'name']}), the
\* group row of the message's groupId, whoever its members are.
messageTo(m) ==
  IF m.groupId \in DOMAIN groups
    THEN [id |-> m.groupId, name |-> groups[m.groupId].name]
    ELSE [id |-> Null, name |-> ""]

\* user.getGroups({where: {id}}): the groups with that id the user is a member of.
getGroups(u, g) ==
  IF GroupExists(g) /\ u \in members[g] THEN {GroupInstance(g)} ELSE {}

\* Group.findOne({where: {id}, include: [{model: User, where: {id: user.id}}]}):
\* the group with that id if the user is a member of it, else null.
findOneForMember(g, u) ==
  IF GroupExists(g) /\ u \in members[g] THEN GroupInstance(g) ELSE NoGroup

\* group.getUsers(): the user rows joined to the group by a membership row.
getUsers(g) == {UserInstance(u) : u \in members[g]}

Ids(insts) == {i.id : i \in insts}

\* An absent cursor argument (undefined, or the empty string, which is falsy).
NoCursor == << >>

\* pageInfo of a page none of whose fields has been evaluated yet.
NoPageInfo == [hasNextPage |-> "none", queried |-> FALSE, hasPreviousPage |-> "none"]

NoPage == [group |-> Null, first |-> Null, last |-> Null, before |-> NoCursor,
           after |-> NoCursor, edges |-> << >>, pageInfo |-> NoPageInfo]

(***************************************************************************)
(* Initial state: three users; group 1 with all three as members and two   *)
(* messages; group 2 with user 1 as its only member, an icon and a         *)
(* message; user 1 has read group 1 up to message 1; user 2 has an avatar  *)
(* and user 3 no registered device.                                        *)
(***************************************************************************)
InitRows ==
  /\ groups = (1 :> [name |-> DefaultGroupName, icon |-> Null]) @@
              (2 :> [name |-> DefaultGroupName, icon |-> 1])
  /\ members = [g \in GroupIds |-> CASE g = 1 -> {1, 2, 3} [] g = 2 -> {1} [] OTHER -> {}]
  /\ nextGroupId = 3
  /\ lastRead = [u \in Users |-> IF u = 1 THEN {1} ELSE {}]
  /\ badgeCount = [u \in Users |-> 0]
  /\ registrationId = [u \in Users |-> IF u = 3 THEN Null ELSE 10 + u]
  /\ username = [u \in Users |-> "u"]
  /\ avatar = [u \in Users |-> IF u = 2 THEN 2 ELSE Null]
  /\ assets = {1, 2}
  /\ nextKey = 3
  /\ outbox = << >>

InitMessages ==
  /\ messages = {[id |-> 1, userId |-> 2, groupId |-> 1, text |-> "hi"],
                 [id |-> 2, userId |-> 1, groupId |-> 1, text |-> "hi"],
                 [id |-> 3, userId |-> 1, groupId |-> 2, text |-> "hi"]}
  /\ nextMsgId = 4

Init ==
  /\ InitRows
  /\ InitMessages
  /\ reqs = [s \in Slots |-> Idle]
  /\ page = NoPage

\* A new request record of operation op by the context user u.
NewReq(op, u) == [Idle EXCEPT !.op = op, !.user = u, !.pc = "start"]

Set(s, r) == reqs' = [reqs EXCEPT ![s] = r]

\* The elements of a set of user instances as a sequence, by ascending id
\* (the order in which the store returns the rows).
RECURSIVE ById(_)
ById(S) ==
  IF S = {} THEN << >>
  ELSE LET x == CHOOSE y \in S : \A z \in S : y.id <= z.id
       IN <<x>> \o ById(S \ {x})

(***************************************************************************)
(* messageLogic.createMessage                                              *)
(***************************************************************************)
\* fanoutTargets without the filter that leaves the author out.
fanoutTargetsAll(users, author) == users

\* Line 46: the members whose badge the fan-out increments.
fanoutTargets(users, author) == {x \in users : x.id # author}

\* Line 48: the updated users a notification is sent to.
registeredUsers(updatedUsers) == {x \in updatedUsers : x.registrationId # Null}

\* fanoutFailure with the fan-out chained into the result (returned).
fanoutFailureReturned(r, e) ==
  [r EXCEPT !.pc = "fin", !.unhandled = e, !.status = "rejected", !.err = e]

\* What a failure of the detached fan-out does to the request's result.
fanoutFailure(r, e) == [r EXCEPT !.pc = "fin", !.unhandled = e]

\* getAuthenticatedUser(ctx), then user.getGroups({where: {id: groupId}}),
\* then the test of groups.length.
createMessageGetGroups(s, u, g, t) ==
  /\ FreeSlot(s)
  /\ LET r == [NewReq("createMessage", u) EXCEPT !.gid = g, !.text = t]
         a == currentUser(u)
         gs == getGroups(a.user, g)
     IN IF ~a.ok THEN Set(s, Rejected(r, a.err))
        ELSE IF gs = {} THEN Set(s, Rejected(r, "Unauthorized"))
        ELSE Set(s, [r EXCEPT !.pc = "create",
                              !.group = CHOOSE x \in gs : TRUE,
                              !.uname = username[a.user]])
  /\ UNCHANGED <<store, external, page>>

\* Message.create({userId, text, groupId}) and its continuation, which
\* starts group.getUsers() without returning it and returns the message.
createMessageCreate(s) ==
  LET r == reqs[s] IN
  /\ r.op = "createMessage" /\ r.pc = "create"
  /\ messages' = messages \cup
       {[id |-> nextMsgId, userId |-> r.user, groupId |-> r.gid, text |-> r.text]}
  /\ nextMsgId' = nextMsgId + 1
  /\ Set(s, [r EXCEPT !.pc = "load", !.status = "resolved", !.val = nextMsgId])
  /\ UNCHANGED <<groups, members, nextGroupId, lastRead, badgeCount,
                 registrationId, username, avatar, external, page>>

\* group.getUsers() of the fan-out resolves, and every increment is issued;
\* or it fails, which nothing handles.
createMessageLoad(s) ==
  LET r == reqs[s] IN
  /\ r.op = "createMessage" /\ r.pc = "load"
  /\ \/ LET users == getUsers(r.group.id)
        IN Set(s, [r EXCEPT !.pc = "incr", !.users = users,
                            !.pend = Ids(fanoutTargets(users, r.user))])
     \/ Set(s, fanoutFailure(r, "UpstreamFailure"))
  /\ UNCHANGED <<store, external, page>>

\* usr.increment('badgeCount') of one member resolves or fails.
createMessageIncrement(s, u) ==
  LET r == reqs[s] IN
  /\ r.op = "createMessage" /\ r.pc = "incr" /\ u \in r.pend
  /\ \/ /\ badgeCount' = [badgeCount EXCEPT ![u] = @ + 1]
        /\ Set(s, [r EXCEPT !.pend = @ \ {u}, !.ok = @ \cup {u}])
     \/ /\ Set(s, [r EXCEPT !.pend = @ \ {u}, !.failed = TRUE,
                            !.unhandled = "UpstreamFailure"])
        /\ UNCHANGED badgeCount
  /\ UNCHANGED <<groups, members, messages, nextMsgId, nextGroupId, lastRead,
                 registrationId, username, avatar, external, page>>

\* The notification sent for one updated user (lines 50-69); msg and user
\* are not part of the payload: they record which message and member the
\* call was made for.  delivered is the transport's outcome, which the
\* caller never looks at.
notification(r, x, delivered) ==
  [to |-> x.registrationId, badge |-> x.badgeCount + 1,
   title |-> <<r.uname, r.group.name>>, body |-> r.text,
   group |-> [id |-> r.group.id, name |-> r.group.name],
   msg |-> r.val, user |-> x.id, delivered |-> delivered]

\* The users Promise.all(userPromises) hands to its continuation: all of
\* the targets when every increment resolved, and none (the continuation
\* does not run) when one was rejected.
updatedUsers(r) ==
  IF r.failed THEN {} ELSE {x \in fanoutTargets(r.users, r.user) : x.id \in r.ok}

\* Promise.all(userPromises) settles: the notifications are sent.
createMessageNotify(s) ==
  LET r == reqs[s]
      regs == ById(registeredUsers(updatedUsers(r)))
  IN
  /\ r.op = "createMessage" /\ r.pc = "incr" /\ r.pend = {}
  /\ \E lost \in SUBSET (1..Len(regs)) :
       outbox' = outbox \o [i \in 1..Len(regs) |-> notification(r, regs[i], i \notin lost)]
  /\ Set(s, [r EXCEPT !.pc = "fin"])
  /\ UNCHANGED <<store, assets, nextKey, page>>

(***************************************************************************)
(* groupLogic.createGroup                                                  *)
(***************************************************************************)
\* getFriends without the restriction to the user's friends.
getFriendsUnfiltered(u, userIds) == userIds

\* user.getFriends({where: {id: {$in: userIds}}})
getFriends(u, userIds) == FriendsOf(u) \cap userIds

\* group.addUsers([user, ...friends])
addUsers(g, us) == [members EXCEPT ![g] = @ \cup us]

createGroupGetFriends(s, u, n, userIds, icon) ==
  /\ FreeSlot(s)
  /\ LET r == [NewReq("createGroup", u) EXCEPT !.name = n, !.ids = userIds, !.icon = icon]
         a == currentUser(u)
     IN IF ~a.ok THEN Set(s, Rejected(r, a.err))
        ELSE Set(s, [r EXCEPT !.pc = "create", !.friends = getFriends(a.user, userIds)])
  /\ UNCHANGED <<store, external, page>>

\* Group.create({name})
createGroupCreate(s) ==
  LET r == reqs[s] IN
  /\ r.op = "createGroup" /\ r.pc = "create"
  /\ nextGroupId <= MaxGroups
  /\ groups' = groups @@ (nextGroupId :> [name |-> r.name, icon |-> Null])
  /\ nextGroupId' = nextGroupId + 1
  /\ Set(s, [r EXCEPT !.pc = "addUsers",
                      !.group = [id |-> nextGroupId, name |-> r.name, icon |-> Null]])
  /\ UNCHANGED <<members, messages, nextMsgId, lastRead, badgeCount,
                 registrationId, username, avatar, external, page>>

\* group.addUsers([user, ...friends]); without an icon the group is returned.
createGroupAddUsers(s) ==
  LET r == reqs[s] IN
  /\ r.op = "createGroup" /\ r.pc = "addUsers"
  /\ members' = addUsers(r.group.id, {r.user} \cup r.friends)
  /\ IF r.icon THEN Set(s, [r EXCEPT !.pc = "upload"])
               ELSE Set(s, Resolved(r, r.group.id))
  /\ UNCHANGED <<groups, messages, nextMsgId, nextGroupId, lastRead, badgeCount,
                 registrationId, username, avatar, external, page>>

\* uploadFile({file: icon.path, ...})
createGroupUpload(s) ==
  LET r == reqs[s] IN
  /\ r.op = "createGroup" /\ r.pc = "upload"
  /\ assets' = assets \cup {nextKey}
  /\ nextKey' = nextKey + 1
  /\ Set(s, [r EXCEPT !.pc = "update", !.key = nextKey])
  /\ UNCHANGED <<store, outbox, page>>

\* instance.update(values): UPDATE ... WHERE id; no row, no change.
updateRow(g, values) ==
  IF GroupExists(g) THEN [groups EXCEPT ![g] = values @@ @] ELSE groups

\* group.update({icon: data.Key})
createGroupUpdate(s) ==
  LET r == reqs[s] IN
  /\ r.op = "createGroup" /\ r.pc = "update"
  /\ groups' = updateRow(r.group.id, [icon |-> r.key])
  /\ Set(s, Resolved(r, r.group.id))
  /\ UNCHANGED <<members, messages, nextMsgId, nextGroupId, lastRead, badgeCount,
                 registrationId, username, avatar, external, page>>

(***************************************************************************)
(* groupLogic.deleteGroup                                                  *)
(***************************************************************************)
\* A method call or property read on what a lookup returned: a TypeError
\* when the lookup returned null.
derefError(group) == IF group = NoGroup THEN "TypeError" ELSE ""

\* getAuthenticatedUser(ctx), then Group.findOne restricted to the user's
\* groups, then group.getUsers() is called on the result.
deleteGroupFindOne(s, u, g) ==
  /\ FreeSlot(s)
  /\ LET r == [NewReq("deleteGroup", u) EXCEPT !.gid = g]
         a == currentUser(u)
         group == findOneForMember(g, a.user)
     IN IF ~a.ok THEN Set(s, Rejected(r, a.err))
        ELSE IF derefError(group) # "" THEN Set(s, Rejected(r, derefError(group)))
        ELSE Set(s, [r EXCEPT !.pc = "getUsers", !.group = group])
  /\ UNCHANGED <<store, external, page>>

\* A store or storage call of deleteGroup fails: the chain has no handler,
\* so the rejection reaches the caller and no later step runs.
deleteGroupFail(s) ==
  LET r == reqs[s] IN
  /\ r.op = "deleteGroup"
  /\ r.pc \in {"getUsers", "removeUsers", "destroyMessages", "deleteFile", "destroy"}
  /\ Set(s, [Rejected(r, "UpstreamFailure") EXCEPT !.failed = TRUE])
  /\ UNCHANGED <<store, external, page>>

\* group.getUsers()
deleteGroupGetUsers(s) ==
  LET r == reqs[s] IN
  /\ r.op = "deleteGroup" /\ r.pc = "getUsers"
  /\ Set(s, [r EXCEPT !.pc = "removeUsers", !.users = getUsers(r.group.id)])
  /\ UNCHANGED <<store, external, page>>

\* group.removeUsers(users)
deleteGroupRemoveUsers(s) ==
  LET r == reqs[s] IN
  /\ r.op = "deleteGroup" /\ r.pc = "removeUsers"
  /\ members' = [members EXCEPT ![r.group.id] = @ \ Ids(r.users)]
  /\ Set(s, [r EXCEPT !.pc = "destroyMessages"])
  /\ UNCHANGED <<groups, messages, nextMsgId, nextGroupId, lastRead, badgeCount,
                 registrationId, username, avatar, external, page>>

\* deleteGroupDestroyMessages without the test of group.icon: the icon
\* asset is never deleted.
deleteGroupDestroyMessagesKeepsIcon(s) ==
  LET r == reqs[s] IN
  /\ r.op = "deleteGroup" /\ r.pc = "destroyMessages"
  /\ messages' = {m \in messages : m.groupId # r.group.id}
  /\ Set(s, [r EXCEPT !.pc = "destroy"])
  /\ UNCHANGED <<groups, members, nextMsgId, nextGroupId, lastRead, badgeCount,
                 registrationId, username, avatar, external, page>>

\* Message.destroy({where: {groupId: group.id}}), then the test of group.icon
deleteGroupDestroyMessages(s) ==
  LET r == reqs[s] IN
  /\ r.op = "deleteGroup" /\ r.pc = "destroyMessages"
  /\ messages' = {m \in messages : m.groupId # r.group.id}
  /\ Set(s, [r EXCEPT !.pc = IF r.group.icon # Null THEN "deleteFile" ELSE "destroy"])
  /\ UNCHANGED <<groups, members, nextMsgId, nextGroupId, lastRead, badgeCount,
                 registrationId, username, avatar, external, page>>

\* deleteFile(group.icon)
deleteGroupDeleteFile(s) ==
  LET r == reqs[s] IN
  /\ r.op = "deleteGroup" /\ r.pc = "deleteFile"
  /\ assets' = assets \ {r.group.icon}
  /\ Set(s, [r EXCEPT !.pc = "destroy"])
  /\ UNCHANGED <<store, nextKey, outbox, page>>

\* instance.destroy(): DELETE ... WHERE id
destroyRow(g) == [x \in DOMAIN groups \ {g} |-> groups[x]]

\* group.destroy()
deleteGroupDestroy(s) ==
  LET r == reqs[s] IN
  /\ r.op = "deleteGroup" /\ r.pc = "destroy"
  /\ groups' = destroyRow(r.group.id)
  /\ Set(s, Resolved(r, r.group.id))
  /\ UNCHANGED <<members, messages, nextMsgId, nextGroupId, lastRead, badgeCount,
                 registrationId, username, avatar, external, page>>

(***************************************************************************)
(* groupLogic.leaveGroup                                                   *)
(***************************************************************************)
\* Lines 251-255: Promise.reject('No group found') is built and dropped,
\* and group.removeUser is called on the result whatever it is.
leaveGroupNotFound(r, group) ==
  IF group = NoGroup
    THEN [Rejected(r, derefError(group)) EXCEPT !.unhandled = "No group found"]
    ELSE [r EXCEPT !.pc = "removeUser", !.group = group]

\* getAuthenticatedUser(ctx), then Group.findOne restricted to the user's groups.
leaveGroupFindOne(s, u, g) ==
  /\ FreeSlot(s)
  /\ LET r == [NewReq("leaveGroup", u) EXCEPT !.gid = g]
         a == currentUser(u)
     IN IF ~a.ok THEN Set(s, Rejected(r, a.err))
        ELSE Set(s, leaveGroupNotFound(r, findOneForMember(g, a.user)))
  /\ UNCHANGED <<store, external, page>>

\* group.removeUser(user.id)
leaveGroupRemoveUser(s) ==
  LET r == reqs[s] IN
  /\ r.op = "leaveGroup" /\ r.pc = "removeUser"
  /\ members' = [members EXCEPT ![r.group.id] = @ \ {r.user}]
  /\ Set(s, [r EXCEPT !.pc = "getUsers"])
  /\ UNCHANGED <<groups, messages, nextMsgId, nextGroupId, lastRead, badgeCount,
                 registrationId, username, avatar, external, page>>

\* leaveGroupLastUser without the destroy of the emptied group.
leaveGroupKeepsGroup(r, users) == [Resolved(r, r.gid) EXCEPT !.users = users]

\* Lines 257-263: with no user left group.destroy() is started and not
\* returned; {id} is returned either way.
leaveGroupLastUser(r, users) ==
  IF users = {}
    THEN [r EXCEPT !.pc = "destroy", !.status = "resolved", !.val = r.gid, !.users = users]
    ELSE [Resolved(r, r.gid) EXCEPT !.users = users]

\* group.getUsers()
leaveGroupGetUsers(s) ==
  LET r == reqs[s] IN
  /\ r.op = "leaveGroup" /\ r.pc = "getUsers"
  /\ Set(s, leaveGroupLastUser(r, getUsers(r.group.id)))
  /\ UNCHANGED <<store, external, page>>

\* The group.destroy() that leaveGroup started takes effect.
leaveGroupDestroy(s) ==
  LET r == reqs[s] IN
  /\ r.op = "leaveGroup" /\ r.pc = "destroy"
  /\ groups' = destroyRow(r.group.id)
  /\ Set(s, [r EXCEPT !.pc = "done"])
  /\ UNCHANGED <<members, messages, nextMsgId, nextGroupId, lastRead, badgeCount,
                 registrationId, username, avatar, external, page>>

(***************************************************************************)
(* groupLogic.updateGroup                                                  *)
(***************************************************************************)
\* user.getLastRead({where: {groupId}}): the messages of the group the user
\* has a last-read row for.
getLastRead(u, g) ==
  {m \in lastRead[u] : \E msg \in messages : msg.id = m /\ msg.groupId = g}

\* Lines 305-313: namePromise, then group.update(opts) is called on what
\* the lookup returned.
updateGroupAfterIcon(r) ==
  IF derefError(r.group) # "" THEN Rejected(r, derefError(r.group))
  ELSE [r EXCEPT !.pc = "update"]

\* Lines 286-303 and 311: iconPromise starts an upload when there is an icon.
updateGroupAfterLastRead(r) ==
  IF r.icon THEN [r EXCEPT !.pc = "upload"] ELSE updateGroupAfterIcon(r)

\* Lines 278-284 and 310: with a lastRead, lastReadPromise() starts
\* user.getLastRead and, while it builds the chain, user.addLastRead(lastRead):
\* .then(user.addLastRead(lastRead)) is given the call's promise, not a function.
updateGroupLastRead(r) ==
  IF r.lastRead # Null
    THEN [r EXCEPT !.pc = "getLastRead", !.addPc = "pending"]
    ELSE updateGroupAfterLastRead(r)

\* getAuthenticatedUser(ctx), then Group.findOne restricted to the user's
\* groups; the result is not tested.
updateGroupFindOne(s, u, g, n, lr, icon) ==
  /\ FreeSlot(s)
  /\ LET r == [NewReq("updateGroup", u) EXCEPT
                 !.gid = g, !.name = n, !.lastRead = lr, !.icon = icon]
         a == currentUser(u)
     IN IF ~a.ok THEN Set(s, Rejected(r, a.err))
        ELSE Set(s, updateGroupLastRead([r EXCEPT !.group = findOneForMember(g, a.user)]))
  /\ UNCHANGED <<store, external, page>>

\* user.getLastRead({where: {groupId: id}})
updateGroupGetLastRead(s) ==
  LET r == reqs[s] IN
  /\ r.op = "updateGroup" /\ r.pc = "getLastRead"
  /\ Set(s, [r EXCEPT !.pc = "removeLastRead", !.old = getLastRead(r.user, r.gid)])
  /\ UNCHANGED <<store, external, page>>

\* user.removeLastRead(oldLastRead); the chain goes on without waiting for
\* addLastRead.
updateGroupRemoveLastRead(s) ==
  LET r == reqs[s] IN
  /\ r.op = "updateGroup" /\ r.pc = "removeLastRead"
  /\ lastRead' = [lastRead EXCEPT ![r.user] = @ \ r.old]
  /\ Set(s, updateGroupAfterLastRead(r))
  /\ UNCHANGED <<groups, members, messages, nextMsgId, nextGroupId, badgeCount,
                 registrationId, username, avatar, external, page>>

\* user.addLastRead(lastRead), started with the chain, takes effect.
updateGroupAddLastRead(s) ==
  LET r == reqs[s] IN
  /\ r.op = "updateGroup" /\ r.addPc = "pending"
  /\ lastRead' = [lastRead EXCEPT ![r.user] = @ \cup {r.lastRead}]
  /\ Set(s, [r EXCEPT !.addPc = "done"])
  /\ UNCHANGED <<groups, members, messages, nextMsgId, nextGroupId, badgeCount,
                 registrationId, username, avatar, external, page>>

\* Lines 295-301: after the upload group.icon is read from what the lookup
\* returned, and the old asset is deleted when there is one.
updateGroupAfterUpload(r, key) ==
  IF derefError(r.group) # "" THEN [Rejected(r, derefError(r.group)) EXCEPT !.key = key]
  ELSE IF r.group.icon # Null THEN [r EXCEPT !.pc = "deleteFile", !.key = key]
  ELSE [r EXCEPT !.pc = "update", !.key = key]

\* uploadFile({file: icon.path, ...})
updateGroupUpload(s) ==
  LET r == reqs[s] IN
  /\ r.op = "updateGroup" /\ r.pc = "upload"
  /\ assets' = assets \cup {nextKey}
  /\ nextKey' = nextKey + 1
  /\ Set(s, updateGroupAfterUpload(r, nextKey))
  /\ UNCHANGED <<store, outbox, page>>

\* deleteFile(group.icon)
updateGroupDeleteFile(s) ==
  LET r == reqs[s] IN
  /\ r.op = "updateGroup" /\ r.pc = "deleteFile"
  /\ assets' = assets \ {r.group.icon}
  /\ Set(s, [r EXCEPT !.pc = "update"])
  /\ UNCHANGED <<store, nextKey, outbox, page>>

\* The options the three sub-operations merged into one object.
updateGroupOptions(r) ==
  LET i == IF r.icon THEN [icon |-> r.key] ELSE << >>
      n == IF r.name # "" THEN [name |-> r.name] ELSE << >>
  IN i @@ n

\* group.update(opts)
updateGroupUpdate(s) ==
  LET r == reqs[s] IN
  /\ r.op = "updateGroup" /\ r.pc = "update"
  /\ groups' = updateRow(r.group.id, updateGroupOptions(r))
  /\ Set(s, Resolved(r, r.group.id))
  /\ UNCHANGED <<members, messages, nextMsgId, nextGroupId, lastRead, badgeCount,
                 registrationId, username, avatar, external, page>>

(***************************************************************************)
(* userLogic.updateUser                                                    *)
(***************************************************************************)
\* user.update(options): the fields the input has are set.
updateUserRow(r) ==
  /\ registrationId' =
       IF r.reg # Absent THEN [registrationId EXCEPT ![r.user] = r.reg] ELSE registrationId
  /\ badgeCount' =
       IF r.badge # Absent THEN [badgeCount EXCEPT ![r.user] = r.badge] ELSE badgeCount
  /\ username' = IF r.name # "" THEN [username EXCEPT ![r.user] = r.name] ELSE username
  /\ avatar' = IF r.avatar THEN [avatar EXCEPT ![r.user] = r.key] ELSE avatar

\* getAuthenticatedUser(ctx); with an avatar uploadFile, and the test of
\* user.avatar; without one user.update(options).
updateUserFirst(s, u, reg, badge, av, n) ==
  /\ FreeSlot(s)
  /\ LET r == [NewReq("updateUser", u) EXCEPT
                 !.reg = reg, !.badge = badge, !.avatar = av, !.name = n]
         a == currentUser(u)
     IN IF ~a.ok
          THEN /\ Set(s, Rejected(r, a.err))
               /\ UNCHANGED <<store, external>>
        ELSE IF av
          THEN /\ assets' = assets \cup {nextKey}
               /\ nextKey' = nextKey + 1
               /\ Set(s, [r EXCEPT !.key = nextKey, !.old = {avatar[a.user]} \ {Null},
                                   !.pc = IF avatar[a.user] # Null THEN "deleteFile"
                                                                    ELSE "update"])
               /\ UNCHANGED <<store, outbox>>
        ELSE /\ updateUserRow(r)
             /\ Set(s, Resolved(r, a.user))
             /\ UNCHANGED <<groups, members, messages, nextMsgId, nextGroupId,
                            lastRead, external>>
  /\ UNCHANGED page

\* deleteFile(user.avatar)
updateUserDeleteFile(s) ==
  LET r == reqs[s] IN
  /\ r.op = "updateUser" /\ r.pc = "deleteFile"
  /\ assets' = assets \ r.old
  /\ Set(s, [r EXCEPT !.pc = "update"])
  /\ UNCHANGED <<store, nextKey, outbox, page>>

\* user.update(Object.assign(options, {avatar: data.Key}))
updateUserUpdate(s) ==
  LET r == reqs[s] IN
  /\ r.op = "updateUser" /\ r.pc = "update"
  /\ updateUserRow(r)
  /\ Set(s, Resolved(r, r.user))
  /\ UNCHANGED <<groups, members, messages, nextMsgId, nextGroupId, lastRead,
                 external, page>>

(***************************************************************************)
(* The guarded resolvers: groupLogic.lastRead, unreadCount and query,      *)
(* userLogic.email, friends, groups, messages, registrationId and query,   *)
(* subscriptionLogic.groupAdded and messageAdded.  A resolver's result is  *)
(* [status, err, data], data being the set of ids (or the one value) it    *)
(* returns.                                                                *)
(***************************************************************************)
Reject(e) == [status |-> "rejected", err |-> e, data |-> {}]
Return(d) == [status |-> "resolved", err |-> "", data |-> d]

\* The user row's email (never changed by logic.js).
EmailOf(u) == 100 + u

\* groupLogic.lastRead: the first of the user's last-read rows of the group.
groupLastRead(cur, g) ==
  LET lr == getLastRead(cur, g)
  IN IF lr # {} THEN Return({CHOOSE m \in lr : \A x \in lr : m <= x}) ELSE Return({Null})

\* groupLogic.query: the group, when the current user is a member of it.
groupQuery(cur, g) == Return({findOneForMember(g, cur).id})

\* userEmail without the comparison of the ids.
userEmailUngated(cur, target) == Return({EmailOf(target)})

\* userLogic.email
userEmail(cur, target) ==
  IF cur = target THEN Return({EmailOf(cur)}) ELSE Reject("Unauthorized")

\* userLogic.friends
userFriends(cur, target) ==
  IF cur # target THEN Reject("Unauthorized") ELSE Return(FriendsOf(target))

\* userLogic.groups: user.getGroups()
userGroups(cur, target) ==
  IF cur # target THEN Reject("Unauthorized")
  ELSE Return({g \in DOMAIN groups : target \in members[g]})

\* userLogic.messages: Message.findAll({where: {userId: user.id}})
userMessages(cur, target) ==
  IF cur # target THEN Reject("Unauthorized")
  ELSE Return({m.id : m \in {x \in messages : x.userId = target}})

\* userLogic.registrationId
userRegistrationId(cur, target) ==
  IF cur = target THEN Return({registrationId[cur]}) ELSE Reject("Unauthorized")

\* userLogic.query: args.id or args.email names the current user.
userQuery(cur, id, email) ==
  IF cur = id \/ EmailOf(cur) = email THEN Return({cur}) ELSE Reject("Unauthorized")

\* subscriptionLogic.groupAdded
groupAdded(cur, userId) ==
  IF cur # userId THEN Reject("Unauthorized") ELSE Return({})

Range(q) == {q[i] : i \in DOMAIN q}

\* subscriptionLogic.messageAdded: the user's groups among args.groupIds
\* are counted against the length of args.groupIds.
messageAdded(cur, groupIds) ==
  LET gs == {g \in DOMAIN groups : cur \in members[g] /\ g \in Range(groupIds)}
  IN IF Len(groupIds) > Cardinality(gs) THEN Reject("Unauthorized") ELSE Return({})

ResolverKinds ==
  {"lastRead", "groupQuery", "email", "friends", "groups", "messages",
   "registrationId", "userQuery", "groupAdded", "messageAdded"}

\* The resolver kind, after getAuthenticatedUser resolved to cur.
resolver(kind, cur, target, groupIds) ==
  CASE kind = "lastRead" -> groupLastRead(cur, target)
    [] kind = "groupQuery" -> groupQuery(cur, target)
    [] kind = "email" -> userEmail(cur, target)
    [] kind = "friends" -> userFriends(cur, target)
    [] kind = "groups" -> userGroups(cur, target)
    [] kind = "messages" -> userMessages(cur, target)
    [] kind = "registrationId" -> userRegistrationId(cur, target)
    [] kind = "userQuery" -> userQuery(cur, target, Null)
    [] kind = "groupAdded" -> groupAdded(cur, target)
    [] kind = "messageAdded" -> messageAdded(cur, groupIds)

Settle(r, res) ==
  [r EXCEPT !.pc = "done", !.status = res.status, !.err = res.err, !.data = res.data]

\* One guarded resolver: getAuthenticatedUser(ctx), then its lookup.
resolve(s, kind, u, target, groupIds) ==
  /\ FreeSlot(s)
  /\ LET r == [NewReq(kind, u) EXCEPT !.target = target, !.gids = groupIds]
         a == currentUser(u)
     IN IF ~a.ok THEN Set(s, Rejected(r, a.err))
        ELSE Set(s, Settle(r, resolver(kind, a.user, target, groupIds)))
  /\ UNCHANGED <<store, external, page>>

\* groupLogic.unreadCount: getAuthenticatedUser(ctx), then user.getLastRead.
unreadCountGetLastRead(s, u, g) ==
  /\ FreeSlot(s)
  /\ LET r == [NewReq("unreadCount", u) EXCEPT !.target = g]
         a == currentUser(u)
     IN IF ~a.ok THEN Set(s, Rejected(r, a.err))
        ELSE Set(s, [r EXCEPT !.pc = "count", !.old = getLastRead(a.user, g)])
  /\ UNCHANGED <<store, external, page>>

\* Message.count of the group's messages, or of those created after the
\* first last-read one (ids are allocated in creation order).
unreadCountCount(s) ==
  LET r == reqs[s]
      first == CHOOSE m \in r.old : \A x \in r.old : m <= x
      n == IF r.old = {}
             THEN Cardinality({m \in messages : m.groupId = r.target})
             ELSE Cardinality({m \in messages : m.groupId = r.target /\ m.id > first})
  IN
  /\ r.op = "unreadCount" /\ r.pc = "count"
  /\ Set(s, Settle(r, Return({n})))
  /\ UNCHANGED <<store, external, page>>

(***************************************************************************)
(* The requests clients issue, and the specification.                      *)
(***************************************************************************)
Callers == Users \cup {Null}
GroupArgs == GroupIds
UserIdArgs == SUBSET {2, 3}

Next ==
  \/ \E s \in Slots, u \in Callers, g \in GroupArgs, t \in Texts :
       createMessageGetGroups(s, u, g, t)
  \/ \E s \in Slots : createMessageCreate(s)
  \/ \E s \in Slots : createMessageLoad(s)
  \/ \E s \in Slots, u \in Users : createMessageIncrement(s, u)
  \/ \E s \in Slots : createMessageNotify(s)
  \/ \E s \in Slots, u \in Callers, ids \in UserIdArgs, icon \in BOOLEAN :
       createGroupGetFriends(s, u, NewGroupName, ids, icon)
  \/ \E s \in Slots : createGroupCreate(s)
  \/ \E s \in Slots : createGroupAddUsers(s)
  \/ \E s \in Slots : createGroupUpload(s)
  \/ \E s \in Slots : createGroupUpdate(s)
  \/ \E s \in Slots, u \in Callers, g \in GroupArgs : deleteGroupFindOne(s, u, g)
  \/ \E s \in Slots : deleteGroupFail(s)
  \/ \E s \in Slots : deleteGroupGetUsers(s)
  \/ \E s \in Slots : deleteGroupRemoveUsers(s)
  \/ \E s \in Slots : deleteGroupDestroyMessages(s)
  \/ \E s \in Slots : deleteGroupDeleteFile(s)
  \/ \E s \in Slots : deleteGroupDestroy(s)
  \/ \E s \in Slots, u \in Callers, g \in GroupArgs : leaveGroupFindOne(s, u, g)
  \/ \E s \in Slots : leaveGroupRemoveUser(s)
  \/ \E s \in Slots : leaveGroupGetUsers(s)
  \/ \E s \in Slots : leaveGroupDestroy(s)

Spec == Init /\ [][Next]_vars

(***************************************************************************)
(* The specification of every operation: the requests above, and one       *)
(* updateGroup, updateUser or guarded resolver issued before them.         *)
(***************************************************************************)
MaxSolo == 1
SoloSlots == 1..MaxSolo
NameArgs == {"", NewGroupName}
LastReadArgs == {Null, 2}
RegArgs == {Absent, Null, 21}
BadgeArgs == {Absent, 0}
TargetArgs == 1..3
GroupIdsArgs == {<< >>, <<1>>, <<2>>, <<1, 2>>, <<1, 1>>, <<2, 3>>}

NextAll ==
  \/ Next
  \/ \E s \in SoloSlots, u \in Callers, g \in GroupArgs, n \in NameArgs,
        lr \in LastReadArgs, icon \in BOOLEAN :
       updateGroupFindOne(s, u, g, n, lr, icon)
  \/ \E s \in Slots : updateGroupGetLastRead(s)
  \/ \E s \in Slots : updateGroupRemoveLastRead(s)
  \/ \E s \in Slots : updateGroupAddLastRead(s)
  \/ \E s \in Slots : updateGroupUpload(s)
  \/ \E s \in Slots : updateGroupDeleteFile(s)
  \/ \E s \in Slots : updateGroupUpdate(s)
  \/ \E s \in SoloSlots, u \in Callers, reg \in RegArgs, badge \in BadgeArgs,
        av \in BOOLEAN, n \in NameArgs :
       updateUserFirst(s, u, reg, badge, av, n)
  \/ \E s \in Slots : updateUserDeleteFile(s)
  \/ \E s \in Slots : updateUserUpdate(s)
  \/ \E s \in SoloSlots, kind \in ResolverKinds \ {"messageAdded"}, u \in Callers,
        target \in TargetArgs :
       resolve(s, kind, u, target, << >>)
  \/ \E s \in SoloSlots, u \in Callers, groupIds \in GroupIdsArgs :
       resolve(s, "messageAdded", u, Null, groupIds)
  \/ \E s \in SoloSlots, u \in Callers, g \in GroupArgs : unreadCountGetLastRead(s, u, g)
  \/ \E s \in Slots : unreadCountCount(s)

SpecAll == Init /\ [][NextAll]_vars


(***************************************************************************)
(* groupLogic.messages: the message feed paginator.                        *)
(***************************************************************************)
\* A string is the sequence of its character codes; a base64 string is the
\* sequence of its 6-bit values, Pad standing for '='.
Pad == 64

RECURSIVE digits(_)
digits(n) == IF n < 10 THEN <<n>> ELSE digits(n \div 10) \o <<n % 10>>

\* message.id.toString()
toString(n) == [i \in 1..Len(digits(n)) |-> 48 + digits(n)[i]]

\* Buffer.from(str).toString('base64')
RECURSIVE toBase64(_)
toBase64(b) ==
  IF b = << >> THEN << >>
  ELSE IF Len(b) = 1 THEN <<b[1] \div 4, (b[1] % 4) * 16, Pad, Pad>>
  ELSE IF Len(b) = 2
    THEN <<b[1] \div 4, (b[1] % 4) * 16 + (b[2] \div 16), (b[2] % 16) * 4, Pad>>
  ELSE <<b[1] \div 4, (b[1] % 4) * 16 + (b[2] \div 16),
         (b[2] % 16) * 4 + (b[3] \div 64), b[3] % 64>>
       \o toBase64(SubSeq(b, 4, Len(b)))

\* fromBase64 without the treatment of the padding.
RECURSIVE fromBase64NoPadding(_)
fromBase64NoPadding(c) ==
  IF Len(c) < 4 THEN << >>
  ELSE <<c[1] * 4 + (c[2] \div 16), (c[2] % 16) * 16 + (c[3] \div 4),
         (c[3] % 4) * 64 + c[4]>>
       \o fromBase64NoPadding(SubSeq(c, 5, Len(c)))

\* Buffer.from(str, 'base64').toString()
RECURSIVE fromBase64(_)
fromBase64(c) ==
  IF Len(c) < 4 THEN << >>
  ELSE IF c[3] = Pad THEN <<c[1] * 4 + (c[2] \div 16)>>
  ELSE IF c[4] = Pad
    THEN <<c[1] * 4 + (c[2] \div 16), (c[2] % 16) * 16 + (c[3] \div 4)>>
  ELSE <<c[1] * 4 + (c[2] \div 16), (c[2] % 16) * 16 + (c[3] \div 4),
         (c[3] % 4) * 64 + c[4]>>
       \o fromBase64(SubSeq(c, 5, Len(c)))

\* The number the store compares the id column with, given a decimal string.
RECURSIVE toNumber(_)
toNumber(str) ==
  IF str = << >> THEN 0
  ELSE toNumber(SubSeq(str, 1, Len(str) - 1)) * 10 + (str[Len(str)] - 48)

\* Line 111: the cursor of a message.
encodeCursor(id) == toBase64(toString(id))

\* Lines 98 and 102: the id a cursor argument is decoded to.
decodeCursor(cursor) == toNumber(fromBase64(cursor))

\* Lines 90-103: the where clause; the after branch assigns where.id last.
messagesWhere(g, before, after) ==
  [groupId |-> g,
   op |-> IF after # NoCursor THEN "$lt" ELSE IF before # NoCursor THEN "$gt" ELSE "",
   id |-> IF after # NoCursor THEN decodeCursor(after)
          ELSE IF before # NoCursor THEN decodeCursor(before) ELSE Null]

\* A message row matches a where clause.
matches(m, where) ==
  /\ m.groupId = where.groupId
  /\ CASE where.op = "$gt" -> m.id > where.id
       [] where.op = "$lt" -> m.id < where.id
       [] OTHER -> TRUE

\* order: [['id', 'DESC']]
RECURSIVE orderByIdDesc(_)
orderByIdDesc(S) ==
  IF S = {} THEN << >>
  ELSE LET x == CHOOSE y \in S : \A z \in S : y.id >= z.id
       IN <<x>> \o orderByIdDesc(S \ {x})

\* limit: the first n rows, every row without a limit.
limitRows(rows, n) == IF n = Null THEN rows ELSE SubSeq(rows, 1, IF n < Len(rows) THEN n ELSE Len(rows))

\* first || last
firstOrLast(first, last) == IF first # Null THEN first ELSE last

\* Message.findAll({where, order: [['id', 'DESC']], limit})
findAllMessages(where, limit) ==
  limitRows(orderByIdDesc({m \in messages : matches(m, where)}), limit)

\* Lines 110-113: the edges of the rows.
edgesOf(rows) == [i \in 1..Len(rows) |-> [cursor |-> encodeCursor(rows[i].id), node |-> rows[i]]]

\* groupLogic.messages(group, {messageConnection: {first, last, before, after}})
messagesPage(g, first, last, before, after) ==
  [group |-> g, first |-> first, last |-> last, before |-> before, after |-> after,
   edges |-> edgesOf(findAllMessages(messagesWhere(g, before, after),
                                     firstOrLast(first, last))),
   pageInfo |-> NoPageInfo]

\* One call of groupLogic.messages (a read: the first call of a behaviour
\* is every call, the store being what it was).
groupMessages(g, first, last, before, after) ==
  /\ page = NoPage
  /\ page' = messagesPage(g, first, last, before, after)
  /\ UNCHANGED <<store, external, reqs>>

\* last || first
lastOrFirst(last, first) == IF last # Null THEN last ELSE first

\* Line 119: messages.length < (last || first); a comparison with undefined
\* is false.
shortPage(p) ==
  LET n == lastOrFirst(p.last, p.first)
  IN n # Null /\ Len(p.edges) < n

\* Lines 123-131: Message.findOne of the group with id beyond lastId, $gt
\* when before was supplied and $lt otherwise.
findOneBeyond(g, before, lastId) ==
  \E m \in messages :
    /\ m.groupId = g
    /\ IF before # NoCursor THEN m.id > lastId ELSE m.id < lastId

ToText(b) == IF b THEN "true" ELSE "false"

\* Lines 118-132: what hasNextPage() of a page resolves to, and whether it
\* queried the store; messages[messages.length - 1].id of an empty page is
\* a TypeError.
hasNextPage(p) ==
  IF shortPage(p) THEN [value |-> "false", queried |-> FALSE]
  ELSE IF Len(p.edges) = 0 THEN [value |-> "TypeError", queried |-> FALSE]
  ELSE [value |-> ToText(findOneBeyond(p.group, p.before,
                                       p.edges[Len(p.edges)].node.id)),
        queried |-> TRUE]

\* hasPreviousPageExists without the id constraint of the page.
hasPreviousPageAnyMessage(where) == \E m \in messages : m.groupId = where.groupId

\* Lines 134-140: Message.findOne({where: {groupId, id: where.id}}) finds a row.
hasPreviousPageExists(where) == \E m \in messages : matches(m, where)

\* Lines 133-141: what hasPreviousPage() of a page can resolve to.  Without
\* a cursor where.id is undefined, and the store either compares id with
\* NULL (no row) or refuses the query.
hasPreviousPage(p) ==
  LET where == messagesWhere(p.group, p.before, p.after)
  IN IF where.op = "" THEN {"false", "Error"}
     ELSE {ToText(hasPreviousPageExists(where))}

\* pageInfo.hasNextPage() of the page is evaluated.
pageHasNextPage ==
  /\ page # NoPage /\ page.pageInfo.hasNextPage = "none"
  /\ page' = [page EXCEPT !.pageInfo.hasNextPage = hasNextPage(page).value,
                          !.pageInfo.queried = hasNextPage(page).queried]
  /\ UNCHANGED <<store, external, reqs>>

\* pageInfo.hasPreviousPage() of the page is evaluated.
pageHasPreviousPage ==
  /\ page # NoPage /\ page.pageInfo.hasPreviousPage = "none"
  /\ \E v \in hasPreviousPage(page) :
       page' = [page EXCEPT !.pageInfo.hasPreviousPage = v]
  /\ UNCHANGED <<store, external, reqs>>

(***************************************************************************)
(* The specification of the paginator: the store holds any assignment of   *)
(* the ids PageIds to group 1, group 2 or no message, and the feed is      *)
(* queried with any arguments.                                             *)
(***************************************************************************)
MaxPageId == 11
PageIds == {1, 2} \cup (9..MaxPageId)
MaxPageSize == 3
FirstArgs == {Null} \cup (1..MaxPageSize)
LastArgs == {Null, 2}
CursorArgs == {NoCursor} \cup {encodeCursor(k) : k \in {0, 2, 9, 10, MaxPageId + 1}}

InitPage ==
  /\ InitRows
  /\ \E owner \in [PageIds -> {Null, 1, 2}] :
       messages = {[id |-> i, userId |-> 1, groupId |-> owner[i], text |-> "hi"] :
                     i \in {j \in PageIds : owner[j] # Null}}
  /\ nextMsgId = MaxPageId + 1
  /\ reqs = [s \in Slots |-> Idle]
  /\ page = NoPage

NextPage ==
  \/ \E g \in {1, 2}, first \in FirstArgs, last \in LastArgs,
        before \in CursorArgs, after \in CursorArgs :
       groupMessages(g, first, last, before, after)
  \/ pageHasNextPage
  \/ pageHasPreviousPage

SpecPage == InitPage /\ [][NextPage]_vars


(***************************************************************************)
(* The specification of the cursors: group 1 holds the messages n - 1, n   *)
(* and n + 1 for any id n up to MaxCursorId; a client asks for the first   *)
(* page and then for the page before or after one of its edges, passing    *)
(* the edge's cursor back.                                                 *)
(***************************************************************************)
MaxCursorId == 130
CursorIds == 0..MaxCursorId

InitCursor ==
  /\ InitRows
  /\ \E n \in CursorIds :
       /\ messages = {[id |-> i, userId |-> 1, groupId |-> 1, text |-> "hi"] :
                        i \in {j \in {n - 1, n, n + 1} : j >= 0}}
       /\ nextMsgId = n + 2
  /\ reqs = [s \in Slots |-> Idle]
  /\ page = NoPage

\* groupLogic.messages called with the cursor of edge i of the page the
\* client holds, as before or as after.
groupMessagesFrom(i, asBefore) ==
  /\ page # NoPage /\ page.before = NoCursor /\ page.after = NoCursor
  /\ i \in DOMAIN page.edges
  /\ page' = IF asBefore
               THEN messagesPage(page.group, page.first, page.last,
                                 page.edges[i].cursor, NoCursor)
               ELSE messagesPage(page.group, page.first, page.last,
                                 NoCursor, page.edges[i].cursor)
  /\ UNCHANGED <<store, external, reqs>>

NextCursor ==
  \/ \E first \in FirstArgs : groupMessages(1, first, Null, NoCursor, NoCursor)
  \/ \E i \in 1..MaxPageSize, asBefore \in BOOLEAN : groupMessagesFrom(i, asBefore)

SpecCursor == InitCursor /\ [][NextCursor]_vars

(***************************************************************************)
(* Properties.                                                             *)
(***************************************************************************)
InFlight(r) == r.op # "idle" /\ ~(r.pc \in {"done", "fin"})

\* C1: under any interleaving with leaveGroup and deleteGroup, every message
\* row that is inserted has an author who is a member of the message's
\* group at the moment of the insert, and a createMessage whose user is not
\* a member when its membership lookup runs is rejected with 'Unauthorized'
\* and inserts nothing.
C1_MessageCreatedByMember ==
  [][/\ \A m \in messages' \ messages : getGroups(m.userId, m.groupId) # {}
     /\ \A s \in Slots :
          (/\ reqs[s].op = "idle" /\ reqs'[s].op = "createMessage"
           /\ reqs'[s].user # Null
           /\ getGroups(reqs'[s].user, reqs'[s].gid) = {})
          => /\ reqs'[s].status = "rejected" /\ reqs'[s].err = "Unauthorized"
             /\ reqs'[s].pc = "done"
             /\ messages' = messages]_vars

Unsettled(g) ==
  \E s \in Slots :
    /\ reqs[s].op \in {"createGroup", "deleteGroup", "leaveGroup"}
    /\ reqs[s].group.id = g
    /\ InFlight(reqs[s]) \/ reqs[s].failed

C3_LeaveGroupOutcome ==
  [][\A s \in Slots :
       LET r == reqs[s]
           r2 == reqs'[s]
       IN /\ (r.op = "leaveGroup" /\ r.pc = "removeUser" /\ r2.pc # "removeUser")
             => members' = [members EXCEPT ![r.gid] = @ \ {r.user}]
          /\ (r2.op = "leaveGroup" /\ r2.status = "resolved")
             => IF r2.users = {}
                  THEN messageTo([groupId |-> r.gid])'.id = Null
                  ELSE r.status = "pending" =>
                         /\ messageTo([groupId |-> r.gid])'.id = r.gid
                         /\ members'[r2.gid] = Ids(r2.users)]_vars

\* C4: updateGroup and deleteGroup of a user for whom the membership lookup
\* finds no group reject with 'Unauthorized' before anything else is done:
\* no last-read row is removed or added, no asset is uploaded or deleted,
\* no row is changed.
C4_NonMemberRejected ==
  [][\A s \in Slots :
       LET r2 == reqs'[s]
       IN (/\ r2.op \in {"updateGroup", "deleteGroup"}
           /\ r2.user # Null /\ r2.group = NoGroup
           /\ reqs[s] # r2)
          => /\ r2.status = "rejected" /\ r2.err = "Unauthorized"
             /\ UNCHANGED <<store, external>>]_vars

\* C5: leaveGroup of a user for whom the membership lookup finds no group
\* fails with 'No group found', does not return {id}, and removes no
\* membership row and destroys no group.
C5_LeaveGroupNotFound ==
  [][\A s \in Slots :
       LET r2 == reqs'[s]
       IN (/\ r2.op = "leaveGroup" /\ r2.user # Null /\ r2.group = NoGroup
           /\ reqs[s] # r2)
          => /\ r2.status = "rejected" /\ r2.err = "No group found"
             /\ UNCHANGED <<store, external>>]_vars


\* C6: a request of any mutation or guarded resolver whose context user
\* resolves to nothing is rejected with exactly 'Unauthorized', and the
\* store, the asset storage and the notification transport are left as they
\* were.
C6_AbsentUserUnauthorized ==
  [][\A s \in Slots :
       LET r2 == reqs'[s]
       IN (r2.op # "idle" /\ r2.user = Null)
          => /\ r2.status = "rejected" /\ r2.err = "Unauthorized" /\ r2.pc = "done"
             /\ r2.addPc = "none" /\ r2.unhandled = ""
             /\ reqs[s] # r2 => UNCHANGED <<store, external>>]_vars

\* C6 witness: a mutation and a guarded resolver without a context user
\* have been rejected.
C6_Witness ==
  /\ reqs[1].op \in ResolverKinds /\ reqs[1].user = Null /\ reqs[1].status = "rejected"
  /\ reqs[2].op = "createGroup" /\ reqs[2].user = Null /\ reqs[2].status = "rejected"

\* The notifications sent for the message of request r.
SentFor(r) == {i \in DOMAIN outbox : outbox[i].msg = r.val}

\* C7: the fan-out of one createMessage, M being the members it loaded:
\* badges are incremented only of members in M other than the author, each
\* at most once and by exactly 1 (so at most N-1 times when the author is
\* one of the N members), never the author's; a notification is sent only
\* to a member in M other than the author whose increment resolved and whose
\* registrationId is not null, and at most one to each.
C7_FanOutBounds ==
  [][\A s \in Slots :
       LET r == reqs[s]
           r2 == reqs'[s]
           others == Ids(r2.users) \ {r2.user}
       IN (r2.op = "createMessage" /\ r2.user # Null) =>
            /\ r2.ok \subseteq others
            /\ r2.user \in Ids(r2.users) => Cardinality(r2.ok) <= Cardinality(r2.users) - 1
            /\ r # r2 =>
                 /\ badgeCount'[r2.user] = badgeCount[r2.user]
                 /\ \A u \in Users :
                      IF u \in r2.ok \ r.ok
                        THEN badgeCount'[u] = badgeCount[u] + 1
                        ELSE badgeCount'[u] = badgeCount[u]
            /\ Len(outbox') # Len(outbox) /\ r # r2 =>
                 \A i \in DOMAIN outbox' \ DOMAIN outbox : outbox'[i].msg = r2.val
            /\ r2.status = "resolved" =>
                 \A i \in DOMAIN outbox' :
                   outbox'[i].msg = r2.val =>
                     /\ outbox'[i].user \in r2.ok
                     /\ outbox'[i].to # Null
                     /\ \E x \in r2.users :
                          x.id = outbox'[i].user /\ x.registrationId = outbox'[i].to
                     /\ \A j \in DOMAIN outbox' :
                          (outbox'[j].msg = r2.val /\ outbox'[j].user = outbox'[i].user)
                          => j = i]_vars

\* C7 witness: a message of a member of the three-member group was fanned
\* out: two badges incremented, one notification sent.
C7_Witness ==
  \E s \in Slots :
    /\ reqs[s].op = "createMessage" /\ reqs[s].pc = "fin"
    /\ Cardinality(reqs[s].users) = 3 /\ Cardinality(reqs[s].ok) = 2
    /\ reqs[s].user \in Ids(reqs[s].users)
    /\ Cardinality(SentFor(reqs[s])) = 1

\* C8: a failure for one recipient does not keep another from being
\* notified: when the fan-out of a message is over, every member other than
\* the author whose own increment resolved and whose registrationId is not
\* null has been sent the notification.
C8_FanOutIsolated ==
  \A s \in Slots :
    LET r == reqs[s]
    IN (r.op = "createMessage" /\ r.pc = "fin")
       => \A x \in r.users :
            (x.id \in r.ok /\ x.id # r.user /\ x.registrationId # Null)
            => \E i \in SentFor(r) : outbox[i].user = x.id

\* C9: createMessage of a member resolves with the message at the moment
\* its row is created, before any step of the fan-out, and stays resolved
\* with it whatever fails in the fan-out (loading the members, an
\* increment, a notification).
C9_ResolvedBeforeFanOut ==
  \A s \in Slots :
    LET r == reqs[s]
    IN r.op = "createMessage" =>
         /\ r.pc \in {"load", "incr", "fin"}
            => r.status = "resolved" /\ r.err = "" /\ r.val # Null
         /\ r.pc = "load" => r.ok = {} /\ r.users = {} /\ SentFor(r) = {}
         /\ r.status = "rejected" => r.pc = "done" /\ r.val = Null

\* C9 witness: one caller has its message while nothing of the fan-out has
\* happened, and another has it although the fan-out failed.
C9_Witness ==
  /\ \E s \in Slots :
       /\ reqs[s].op = "createMessage" /\ reqs[s].status = "resolved"
       /\ reqs[s].pc = "load" /\ \E m \in messages : m.id = reqs[s].val
  /\ \E s \in Slots :
       /\ reqs[s].op = "createMessage" /\ reqs[s].status = "resolved"
       /\ reqs[s].pc = "fin" /\ reqs[s].unhandled = "UpstreamFailure"


\* The messages of the page's group that satisfy the cursor arguments of
\* the page: id > decoded before, id < decoded after.
Qualifying(p) ==
  {m \in messages :
     /\ m.groupId = p.group
     /\ p.before # NoCursor => m.id > decodeCursor(p.before)
     /\ p.after # NoCursor => m.id < decodeCursor(p.after)}

MinOf(a, b) == IF a < b THEN a ELSE b

\* C10: for a page size n >= 1 (first || last) and any cursor arguments, the
\* nodes of the edges are exactly the min(n, k) largest-id messages among
\* the k messages of the group that satisfy the cursor constraint, in
\* strictly descending id order, each edge's cursor is the encoding of its
\* node's id, and no message of another group is returned.
C10_PageIsNewestQualifying ==
  LET n == firstOrLast(page.first, page.last)
      q == Qualifying(page)
      e == page.edges
  IN (page # NoPage /\ n >= 1) =>
       /\ Len(e) = MinOf(n, Cardinality(q))
       /\ \A i \in DOMAIN e :
            /\ e[i].node \in q
            /\ e[i].node.groupId = page.group
            /\ e[i].cursor = encodeCursor(e[i].node.id)
            /\ decodeCursor(e[i].cursor) = e[i].node.id
       /\ \A i, j \in DOMAIN e : i < j => e[i].node.id > e[j].node.id
       /\ \A m \in q :
            (\A i \in DOMAIN e : e[i].node # m) => \A i \in DOMAIN e : m.id < e[i].node.id


\* The messages among which C11 looks for one more: those of the page's
\* group that satisfy the cursor constraint and are not on the page.
BeyondPage(p) == {m \in Qualifying(p) : \A i \in DOMAIN p.edges : p.edges[i].node # m}

\* C11: for a page asked with a page size n >= 1 and with no cursor, with
\* after or with before, hasNextPage is true if and only if the page is
\* exactly full (n edges) and the group contains a message that satisfies
\* the page's cursor constraint and is not among the returned edges.
C11_HasNextPageIff ==
  LET n == firstOrLast(page.first, page.last)
  IN (/\ page.pageInfo.hasNextPage # "none" /\ n >= 1
      /\ page.before = NoCursor \/ page.after = NoCursor)
     => (page.pageInfo.hasNextPage = "true"
           <=> (Len(page.edges) = n /\ BeyondPage(page) # {}))

\* C12: when the page has fewer edges than the requested page size (the
\* one of first/last used as the row limit), the empty page included,
\* hasNextPage resolves to false, without a further store query and
\* without an error.
C12_ShortPageHasNoNext ==
  LET n == firstOrLast(page.first, page.last)
  IN (page.pageInfo.hasNextPage # "none" /\ n >= 1 /\ Len(page.edges) < n)
     => page.pageInfo.hasNextPage = "false" /\ ~page.pageInfo.queried

\* The id constraint recorded for the query of page p holds of message m.
RecordedConstraint(p, m) ==
  IF p.after # NoCursor THEN m.id < decodeCursor(p.after)
  ELSE m.id > decodeCursor(p.before)

NodeIds(p) == [i \in DOMAIN p.edges |-> p.edges[i].node.id]

\* C17: the cursor round-trips.  Decoding the cursor of every edge gives
\* the id of the edge's message; and a page asked with the cursor of the
\* message n as before (as after) is queried with exactly the constraint
\* id > n (id < n): its nodes are the messages of the group with id > n
\* (id < n), newest first, up to the page size.
C17_CursorRoundTrip ==
  /\ \A i \in DOMAIN page.edges :
       /\ decodeCursor(page.edges[i].cursor) = page.edges[i].node.id
       /\ decodeCursor(encodeCursor(page.edges[i].node.id)) = page.edges[i].node.id
  /\ \A m \in messages : decodeCursor(encodeCursor(m.id)) = m.id
  /\ \A m \in messages :
       /\ page.before = encodeCursor(m.id) =>
            /\ messagesWhere(page.group, page.before, page.after).id = m.id
            /\ NodeIds(page) =
                 NodeIds([edges |-> edgesOf(limitRows(
                   orderByIdDesc({x \in messages : x.groupId = page.group /\ x.id > m.id}),
                   page.first))])
       /\ page.after = encodeCursor(m.id) =>
            /\ messagesWhere(page.group, page.before, page.after).id = m.id
            /\ NodeIds(page) =
                 NodeIds([edges |-> edgesOf(limitRows(
                   orderByIdDesc({x \in messages : x.groupId = page.group /\ x.id < m.id}),
                   page.first))])

\* C17 witness: the cursor of message 100 was passed back as after and the
\* page holds message 99; one-, two- and three-digit ids are all on edges
\* in other states.
C17_Witness ==
  /\ page.after = encodeCursor(100) /\ page.before = NoCursor
  /\ Len(page.edges) >= 1 /\ page.edges[1].node.id = 99
  /\ decodeCursor(page.after) = 100


\* The groups user u belongs to.
Memberships(u) == {g \in DOMAIN groups : u \in members[g]}

\* C14: messageAdded of an authenticated user accepts the subscription if
\* and only if every id in args.groupIds is a group the user belongs to
\* when the lookup runs, and otherwise rejects with 'Unauthorized'.
C14_MessageAddedSubset ==
  [][\A s \in Slots :
       LET r2 == reqs'[s]
       IN (reqs[s].op = "idle" /\ r2.op = "messageAdded" /\ r2.user # Null)
          => IF Range(r2.gids) \subseteq Memberships(r2.user)
               THEN r2.status = "resolved"
               ELSE r2.status = "rejected" /\ r2.err = "Unauthorized"]_vars

IdentityGated == {"email", "registrationId", "friends", "groups", "messages", "groupAdded"}

\* What an identity-gated resolver returns of user u.
OwnData(kind, u) ==
  CASE kind = "email" -> {EmailOf(u)}
    [] kind = "registrationId" -> {registrationId[u]}
    [] kind = "friends" -> FriendsOf(u)
    [] kind = "groups" -> Memberships(u)
    [] kind = "messages" -> {m.id : m \in {x \in messages : x.userId = u}}
    [] kind = "groupAdded" -> {}

\* C15: userLogic.email, registrationId, friends, groups and messages and
\* the groupAdded subscription, called by an authenticated user on a target
\* user: with different ids the call is rejected with 'Unauthorized' and
\* returns no data; with equal ids it returns the requested data.
C15_IdentityGated ==
  [][\A s \in Slots :
       LET r2 == reqs'[s]
       IN (reqs[s].op = "idle" /\ r2.op \in IdentityGated /\ r2.user # Null)
          => IF r2.user # r2.target
               THEN /\ r2.status = "rejected" /\ r2.err = "Unauthorized"
                    /\ r2.data = {}
               ELSE /\ r2.status = "resolved" /\ r2.err = ""
                    /\ r2.data = OwnData(r2.op, r2.user)]_vars

\* C15 witness: user 2 has been refused the groups of user 1, who belongs
\* to two groups.
C15_Witness ==
  /\ reqs[1].op = "groups" /\ reqs[1].user = 2 /\ reqs[1].target = 1
  /\ reqs[1].status = "rejected" /\ reqs[1].err = "Unauthorized"
  /\ reqs[1].data = {} /\ Memberships(1) = {1, 2}

\* The members createGroup of founder u with userIds ids is to give the group.
Founders(u, ids) == {u} \cup {f \in ids : f \in FriendsOf(u)}

\* C16: the membership createGroup of founder u with userIds S gives the
\* new group is exactly {u} united with the friends of u in S, and it is
\* the group's membership when createGroup completes, unless a leaveGroup
\* or deleteGroup of the new group has been issued meanwhile.
C16_CreateGroupMembers ==
  [][\A s \in Slots :
       LET r == reqs[s]
           r2 == reqs'[s]
           g == r.group.id
       IN (r.op = "createGroup" /\ r # r2) =>
            /\ (r.pc = "addUsers")
               => /\ members'[g] = Founders(r.user, r.ids)
                  /\ r.user \in members'[g]
                  /\ \A x \in r.ids : x \notin FriendsOf(r.user) /\ x # r.user
                                      => x \notin members'[g]
            /\ (r.status = "pending" /\ r2.status = "resolved"
                /\ \A t \in Slots \ {s} :
                     ~(reqs'[t].op \in {"leaveGroup", "deleteGroup"} /\ reqs'[t].gid = g))
               => members'[g] = Founders(r.user, r.ids)]_vars

\* C16 witness: user 1, whose only friend is user 2, has created a group
\* with userIds {2, 3}; its members are users 1 and 2.
C16_Witness ==
  \E s \in Slots :
    /\ reqs[s].op = "createGroup" /\ reqs[s].status = "resolved"
    /\ reqs[s].user = 1 /\ reqs[s].ids = {2, 3}
    /\ members[reqs[s].val] = {1, 2}


\* The step of deleteGroup that follows step pc for a group with that icon.
StepAfter(pc, icon) ==
  CASE pc = "getUsers" -> "removeUsers"
    [] pc = "removeUsers" -> "destroyMessages"
    [] pc = "destroyMessages" -> IF icon # Null THEN "deleteFile" ELSE "destroy"
    [] pc = "deleteFile" -> "destroy"
    [] pc = "destroy" -> "done"
    [] OTHER -> "none"

\* C18: deleteGroup of a member takes its steps in the order: remove all
\* members, destroy all messages of the group, delete the icon asset if
\* there is one, destroy the group row, each step doing exactly that and
\* only after the ones before it; when a step fails nothing is undone,
\* no later step runs, and the request is rejected with the failure.
C18_DeleteGroupOrder ==
  [][\A s \in Slots :
       LET r == reqs[s]
           r2 == reqs'[s]
           g == r.group.id
       IN (r.op = "deleteGroup" /\ r # r2) =>
            /\ r.pc # "done"
            /\ IF r2.failed
                 THEN /\ UNCHANGED <<store, external>>
                      /\ r2.status = "rejected" /\ r2.err = "UpstreamFailure"
                      /\ r2.pc = "done"
                 ELSE /\ r2.pc = StepAfter(r.pc, r.group.icon)
                      /\ r2.status = IF r2.pc = "done" THEN "resolved" ELSE "pending"
                      /\ members' # members =>
                           /\ r.pc = "removeUsers"
                           /\ \A x \in GroupIds : x # g => members'[x] = members[x]
                      /\ r.pc = "removeUsers" => members'[g] = {}
                      /\ messages' # messages => r.pc = "destroyMessages"
                      /\ r.pc = "destroyMessages" =>
                           /\ messages' = {m \in messages : m.groupId # g}
                           /\ members[g] = {}
                      /\ assets' # assets => r.pc = "deleteFile"
                      /\ r.pc = "deleteFile" =>
                           /\ r.group.icon # Null /\ assets' = assets \ {r.group.icon}
                           /\ members[g] = {}
                      /\ groups' # groups => r.pc = "destroy"
                      /\ r.pc = "destroy" =>
                           /\ g \notin DOMAIN groups'
                           /\ \A x \in DOMAIN groups \ {g} :
                                x \in DOMAIN groups' /\ groups'[x] = groups[x]
                           /\ members[g] = {}
                           /\ r.group.icon # Null => r.group.icon \notin assets
                      /\ UNCHANGED <<nextMsgId, nextGroupId, lastRead, badgeCount,
                                     registrationId, username, avatar, nextKey, outbox>>]_vars

\* C18 witness: one deleteGroup has gone through all four steps on the
\* group with an icon, and another has failed after it removed the members
\* of its group, which is left without members.
C18_Witness ==
  /\ \E s \in Slots :
       /\ reqs[s].op = "deleteGroup" /\ reqs[s].status = "resolved"
       /\ reqs[s].group.icon # Null /\ reqs[s].group.icon \notin assets
       /\ reqs[s].group.id \notin DOMAIN groups
  /\ \E s \in Slots :
       /\ reqs[s].op = "deleteGroup" /\ reqs[s].failed
       /\ reqs[s].group.id \in DOMAIN groups /\ members[reqs[s].group.id] = {}
       /\ \E m \in messages : m.groupId = reqs[s].group.id


\* C19: when an updateGroup of a member with a lastRead argument (a message
\* of the group) has completed, the user's last-read rows of the group are
\* exactly the new marker, in whatever order the store completed
\* getLastRead, removeLastRead and addLastRead.
C19_LastReadReplaced ==
  \A s \in Slots :
    LET r == reqs[s]
    IN (/\ r.op = "updateGroup" /\ r.pc = "done" /\ r.status = "resolved"
        /\ r.lastRead # Null
        /\ \E m \in messages : m.id = r.lastRead /\ m.groupId = r.gid)
       => getLastRead(r.user, r.gid) = {r.lastRead}

\* No request has a call outstanding.
Quiescent == \A s \in Slots : ~InFlight(reqs[s])

\* C20: in every state in which no operation is in flight, every message
\* in the store belongs to a group that exists.
C20_NoOrphanMessages ==
  Quiescent => \A m \in messages : m.groupId \in DOMAIN groups

====
